---- MODULE Spec2Model ----
(***************************************************************************)
(* Model of the user-registration end-to-end suites and of the API client  *)
(* factory they drive.                                                     *)
(*                                                                         *)
(*   suite "driver": the RESTfulAPIDriver based registration test          *)
(*                   (src/unnamed/part_000, lines 1-59)                    *)
(*   suite "client": the createAPIClient based registration feature        *)
(*                   (src/unnamed/part_000, lines 62-280)                  *)
(*                                                                         *)
(* Optional values (JavaScript undefined) are sequences of length 0 or 1.  *)
(***************************************************************************)
EXTENDS Integers, Sequences, FiniteSets, TLC

\* Number of scenarios one run of the client suite executes.
MaxScenarios == 3

\* Size of the pool the builders' random usernames and emails are drawn from.
NumRandom == 3

None == <<>>

Some(v) == <<v>>

VARIABLES
    suite,                  \* which test file runs
    pc,                     \* position of the jest runner in the suite
    scenario,               \* the scenario (test) being run
    ran,                    \* number of scenarios started so far
    failedStep,             \* step of the current scenario that threw, or "none"
    apiClient,              \* let apiClient = createAPIClient(...)
    serverState,            \* WebServer: "created", "started", "stopped"
    dbState,                \* DBConnection: "created", "connected", "disconnected"
    users,                  \* rows of the users table
    emailServiceSpy,        \* method name -> calls since the last reset
    marketingServiceSpy,    \* method name -> calls since the last reset
    createUserCommand,      \* suite-level variable
    createUserResponse,     \* suite-level variable
    addEmailToListResponse, \* suite-level variable
    getUserResponse,        \* const of the running 'then' step
    inFlight,               \* asynchronous operations started and not completed
    drawnEmails,            \* random emails already handed out
    drawnUsernames,         \* random usernames already handed out
    assignedIn,             \* history: response variable -> scenario that assigned it
    reads                   \* history: response variables read by the assertion steps

vars == <<suite, pc, scenario, ran, failedStep, apiClient, serverState, dbState,
          users, emailServiceSpy, marketingServiceSpy, createUserCommand,
          createUserResponse, addEmailToListResponse, getUserResponse, inFlight,
          drawnEmails, drawnUsernames, assignedIn, reads>>

-----------------------------------------------------------------------------
(* The API client factory                                                  *)

BaseURL == "http://localhost:3000"

createPostsAPI(apiURL) == [apiURL |-> apiURL, resource |-> "posts"]

createUsersAPI(apiURL) == [apiURL |-> apiURL, resource |-> "users"]

createAPIClient(apiURL) ==
    [posts |-> createPostsAPI(apiURL), users |-> createUsersAPI(apiURL)]

\* apiClient.<name> is an object (not undefined)
HasSubClient(client, name) == name \in DOMAIN client

-----------------------------------------------------------------------------
(* Builders                                                                *)

RandomPool == 1..NumRandom

RandomEmail(i) == "user" \o ToString(i) \o "@example.com"

RandomUsername(i) == "user" \o ToString(i)

\* UserCommandBuilder ... .build()
BuildCommand(firstName, lastName, username, email) ==
    [firstName |-> firstName, lastName |-> lastName,
     username |-> username, email |-> email]

\* the capture group (\d+) handed to the given step of 'Account already created w/ email'
StepArguments == {"1", "2"}

-----------------------------------------------------------------------------
(* Spies                                                                   *)

SpyMethods == {"sendMail", "addEmailToList"}

NewSpy == [m \in SpyMethods |-> 0]

getTimesMethodCalled(spy, method) == spy[method]

Called(spy, method) == [spy EXCEPT ![method] = @ + 1]

reset(spy) == [m \in DOMAIN spy |-> 0]

-----------------------------------------------------------------------------
(* The backend behind the client: response envelopes                       *)

Success(data) == [success |-> TRUE, data |-> Some(data), error |-> None]

\* a failure envelope that also carries a payload
FailureWithData(error) ==
    [success |-> FALSE, data |-> Some([message |-> error]), error |-> Some(error)]

Failure(error) == [success |-> FALSE, data |-> None, error |-> Some(error)]

IsValidCommand(cmd) ==
    /\ cmd.firstName # ""
    /\ cmd.lastName # ""
    /\ cmd.username # ""
    /\ cmd.email # ""

NewUser(table, cmd) ==
    [id |-> Cardinality(table) + 1, email |-> cmd.email, firstName |-> cmd.firstName,
     lastName |-> cmd.lastName, username |-> cmd.username]

\* envelope answered by POST /users/new
RegisterResponse(table, cmd) ==
    IF ~IsValidCommand(cmd) THEN Failure("ValidationError")
    ELSE IF \E u \in table : u.email = cmd.email THEN Failure("EmailAlreadyInUse")
    ELSE IF \E u \in table : u.username = cmd.username THEN Failure("UsernameAlreadyTaken")
    ELSE Success(NewUser(table, cmd))

\* a backend that stores the user before validating the command
RegisterUsersUnvalidated(table, cmd) ==
    IF \E u \in table : u.email = cmd.email \/ u.username = cmd.username
    THEN table
    ELSE table \cup {NewUser(table, cmd)}

\* users table after POST /users/new
RegisterUsers(table, cmd) ==
    IF RegisterResponse(table, cmd).success
    THEN table \cup {NewUser(table, cmd)}
    ELSE table

\* email spy after POST /users/new
RegisterMail(spy, table, cmd) ==
    IF RegisterResponse(table, cmd).success THEN Called(spy, "sendMail") ELSE spy

\* envelope answered by the user-by-email lookup
GetUserByEmailResponse(table, email) ==
    IF \E u \in table : u.email = email
    THEN Success(CHOOSE u \in table : u.email = email)
    ELSE Failure("UserNotFound")

\* envelope answered by the add-email-to-marketing-list call
AddEmailToListResponse(email) == Success([email |-> email])

\* users table after DatabaseFixture.setupWithExistingUser
SeededUsers(table, cmd) ==
    IF \E u \in table : u.email = cmd.email \/ u.username = cmd.username
    THEN table
    ELSE table \cup {NewUser(table, cmd)}

-----------------------------------------------------------------------------
(* Scenarios                                                               *)

DriverScenarios == {"SuccessfulRegistration"}

ClientScenarios ==
    {"MarketingAccepted", "MarketingDeclined", "InvalidDetails",
     "AccountAlreadyCreated", "UsernameAlreadyTaken"}

RegisteringScenarios ==
    {"SuccessfulRegistration", "MarketingAccepted", "MarketingDeclined", "InvalidDetails"}

\* a failed or finished test that goes on to the next test without the hook
AfterStepsNoHook == "idle"

\* the driver suite has no afterEach hook
AfterSteps == IF suite = "driver" THEN "idle" ELSE "afterEach"

Init ==
    /\ suite \in {"driver", "client"}
    /\ pc = "beforeAll"
    /\ scenario = "none"
    /\ ran = 0
    /\ failedStep = "none"
    /\ apiClient = createAPIClient(BaseURL)
    /\ serverState = "created"
    /\ dbState = "created"
    /\ users = {}
    /\ emailServiceSpy = NewSpy
    /\ marketingServiceSpy = NewSpy
    /\ createUserCommand = None
    /\ createUserResponse = None
    /\ addEmailToListResponse = None
    /\ getUserResponse = None
    /\ inFlight = {}
    /\ drawnEmails = {}
    /\ drawnUsernames = {}
    /\ assignedIn = [createUserResponse |-> 0, addEmailToListResponse |-> 0]
    /\ reads = {}

-----------------------------------------------------------------------------
(* Assertions of the steps                                                 *)

\* the field-by-field echo of a registration command
EchoesCommand(resp, cmd) ==
    /\ resp.success
    /\ resp.error = None
    /\ resp.data # None
    /\ resp.data[1].id >= 1
    /\ resp.data[1].email = cmd.email
    /\ resp.data[1].firstName = cmd.firstName
    /\ resp.data[1].lastName = cmd.lastName
    /\ resp.data[1].username = cmd.username

\* 'then' of 'Successful registration' (driver suite)
DriverThenAssertions(resp, cmd) ==
    /\ resp.data # None
    /\ resp.data[1].id >= 1
    /\ resp.data[1].email = cmd.email
    /\ resp.data[1].firstName = cmd.email
    /\ resp.data[1].lastName = cmd.email
    /\ resp.data[1].username = cmd.username

\* 'then' of the client suite, Result Verification
ResultVerification(scn, resp, cmd) ==
    IF scn = "InvalidDetails"
    THEN /\ ~resp.success
         /\ resp.error # None
    ELSE /\ resp.success
         /\ resp.error = None
         /\ resp.data # None
         /\ resp.data[1].id >= 1
         /\ resp.data[1].email = cmd.email
         /\ resp.data[1].firstName = cmd.firstName
         /\ resp.data[1].lastName = cmd.lastName
         /\ resp.data[1].username = cmd.username

\* 'then' of the client suite, State and Communication Verification
StateVerification(scn, getResp, cmd, spy) ==
    IF scn = "InvalidDetails"
    THEN /\ getResp.error # None
         /\ getResp.error = Some("UserNotFound")
         /\ getTimesMethodCalled(spy, "sendMail") = 0
    ELSE /\ getResp.data # None
         /\ cmd.email = getResp.data[1].email
         /\ getTimesMethodCalled(spy, "sendMail") = 1

\* 'and' of the client suite
AndAssertions(scn, addResp, spy) ==
    CASE scn = "MarketingAccepted" ->
            /\ addResp # None
            /\ addResp[1].success
            /\ getTimesMethodCalled(spy, "addEmailToList") = 1
      [] scn = "MarketingDeclined" ->
            /\ addResp # None
            /\ addResp[1].success
            /\ getTimesMethodCalled(spy, "addEmailToList") = 0
      [] scn = "InvalidDetails" ->
            getTimesMethodCalled(spy, "addEmailToList") = 0
      [] OTHER -> TRUE

-----------------------------------------------------------------------------
(* Hooks                                                                   *)

\* beforeAll up to the end of `await server.start()`
BeforeAll ==
    /\ pc = "beforeAll"
    /\ serverState' = "started"
    /\ pc' = IF suite = "driver" THEN "idle" ELSE "beforeAllConnect"
    /\ UNCHANGED <<suite, scenario, ran, failedStep, apiClient, dbState, users,
                   emailServiceSpy, marketingServiceSpy, createUserCommand,
                   createUserResponse, addEmailToListResponse, getUserResponse,
                   inFlight, drawnEmails, drawnUsernames, assignedIn, reads>>

\* beforeAll: `await dbConnection.connect()`
BeforeAllConnect ==
    /\ pc = "beforeAllConnect"
    /\ dbState' = "connected"
    /\ pc' = "idle"
    /\ UNCHANGED <<suite, scenario, ran, failedStep, apiClient, serverState, users,
                   emailServiceSpy, marketingServiceSpy, createUserCommand,
                   createUserResponse, addEmailToListResponse, getUserResponse,
                   inFlight, drawnEmails, drawnUsernames, assignedIn, reads>>

\* afterEach without emailServiceSpy.reset()
AfterEachEmailNoReset(spy) == spy

AfterEachEmail(spy) == reset(spy)

AfterEachMarketing(spy) == reset(spy)

AfterEach ==
    /\ pc = "afterEach"
    /\ emailServiceSpy' = AfterEachEmail(emailServiceSpy)
    /\ marketingServiceSpy' = AfterEachMarketing(marketingServiceSpy)
    /\ pc' = "idle"
    /\ UNCHANGED <<suite, scenario, ran, failedStep, apiClient, serverState, dbState,
                   users, createUserCommand, createUserResponse,
                   addEmailToListResponse, getUserResponse, inFlight, drawnEmails,
                   drawnUsernames, assignedIn, reads>>

\* afterAll: `await server.stop()`; the runner may end the suite after any test
AfterAll ==
    /\ pc = "idle"
    /\ ran >= 1
    /\ serverState' = "stopped"
    /\ pc' = "done"
    /\ UNCHANGED <<suite, scenario, ran, failedStep, apiClient, dbState, users,
                   emailServiceSpy, marketingServiceSpy, createUserCommand,
                   createUserResponse, addEmailToListResponse, getUserResponse,
                   inFlight, drawnEmails, drawnUsernames, assignedIn, reads>>

\* the runner starts the next test of the file
StartScenario ==
    /\ pc = "idle"
    /\ ran < (IF suite = "driver" THEN 1 ELSE MaxScenarios)
    /\ scenario' \in (IF suite = "driver" THEN DriverScenarios ELSE ClientScenarios)
    /\ ran' = ran + 1
    /\ failedStep' = "none"
    /\ getUserResponse' = None
    /\ reads' = {}
    /\ pc' = "given"
    /\ UNCHANGED <<suite, apiClient, serverState, dbState, users, emailServiceSpy,
                   marketingServiceSpy, createUserCommand, createUserResponse,
                   addEmailToListResponse, inFlight, drawnEmails, drawnUsernames,
                   assignedIn>>

-----------------------------------------------------------------------------
(* Steps                                                                   *)

\* a step callback throws: the remaining steps of the test are skipped
Throw(step) ==
    /\ failedStep' = step
    /\ pc' = AfterSteps

LastNameOf(scn) == IF scn = "InvalidDetails" THEN "" ELSE "Stemmler"

\* given 'I am a new user'
GivenNewUser ==
    /\ pc = "given"
    /\ scenario \in RegisteringScenarios
    /\ \E i \in RandomPool \ drawnEmails :
         \E j \in (IF suite = "driver" THEN {0} ELSE RandomPool \ drawnUsernames) :
            /\ createUserCommand' =
                  Some(BuildCommand("Khalil", LastNameOf(scenario),
                                    IF suite = "driver" THEN "stemmlerjs"
                                                        ELSE RandomUsername(j),
                                    RandomEmail(i)))
            /\ drawnEmails' = drawnEmails \cup {i}
            /\ drawnUsernames' = drawnUsernames \cup ({j} \cap RandomPool)
    /\ pc' = "when"
    /\ UNCHANGED <<suite, scenario, ran, failedStep, apiClient, serverState, dbState,
                   users, emailServiceSpy, marketingServiceSpy, createUserResponse,
                   addEmailToListResponse, getUserResponse, inFlight, assignedIn,
                   reads>>

\* given 'a user already created an account @ ...': the seeding is started and
\* its promise is dropped
GivenExistingAccount ==
    /\ pc = "given"
    /\ scenario = "AccountAlreadyCreated"
    /\ \E email \in StepArguments :
         \E j \in RandomPool \ drawnUsernames :
            /\ inFlight' = inFlight \cup
                  {[kind |-> "setupWithExistingUser", awaited |-> FALSE,
                    arg |-> BuildCommand("Khalil", "Stemmler", RandomUsername(j), email)]}
            /\ drawnUsernames' = drawnUsernames \cup {j}
    /\ pc' = "when"
    /\ UNCHANGED <<suite, scenario, ran, failedStep, apiClient, serverState, dbState,
                   users, emailServiceSpy, marketingServiceSpy, createUserCommand,
                   createUserResponse, addEmailToListResponse, getUserResponse,
                   drawnEmails, assignedIn, reads>>

\* the empty given, when, then and and callbacks
EmptyStep ==
    /\ \/ pc = "given" /\ scenario = "UsernameAlreadyTaken" /\ pc' = "when"
       \/ /\ pc = "when"
          /\ scenario \in {"AccountAlreadyCreated", "UsernameAlreadyTaken"}
          /\ pc' = "then"
       \/ /\ pc = "then"
          /\ scenario \in {"AccountAlreadyCreated", "UsernameAlreadyTaken"}
          /\ pc' = "and"
       \/ /\ pc = "and"
          /\ scenario \in {"AccountAlreadyCreated", "UsernameAlreadyTaken",
                           "SuccessfulRegistration"}
          /\ pc' = AfterSteps
    /\ UNCHANGED <<suite, scenario, ran, failedStep, apiClient, serverState, dbState,
                   users, emailServiceSpy, marketingServiceSpy, createUserCommand,
                   createUserResponse, addEmailToListResponse, getUserResponse,
                   inFlight, drawnEmails, drawnUsernames, assignedIn, reads>>

\* when 'I register ...': the request is sent and the step awaits the response
WhenRegister ==
    /\ pc = "when"
    /\ scenario \in RegisteringScenarios
    /\ inFlight' = inFlight \cup
          {[kind |-> "register", awaited |-> TRUE, arg |-> createUserCommand[1]]}
    /\ pc' = "whenAwait"
    /\ UNCHANGED <<suite, scenario, ran, failedStep, apiClient, serverState, dbState,
                   users, emailServiceSpy, marketingServiceSpy, createUserCommand,
                   createUserResponse, addEmailToListResponse, getUserResponse,
                   drawnEmails, drawnUsernames, assignedIn, reads>>

\* the register response arrives and the when step goes on to its end or to its
\* next await
RegisterResumes(op) ==
    /\ op.kind = "register"
    /\ pc = "whenAwait"
    /\ createUserResponse' = Some(RegisterResponse(users, op.arg))
    /\ users' = RegisterUsers(users, op.arg)
    /\ emailServiceSpy' = RegisterMail(emailServiceSpy, users, op.arg)
    /\ assignedIn' = [assignedIn EXCEPT !.createUserResponse = ran]
    /\ IF scenario = "MarketingAccepted"
       THEN IF HasSubClient(apiClient, "marketing")
            THEN /\ inFlight' = (inFlight \ {op}) \cup
                       {[kind |-> "addEmailToList", awaited |-> TRUE,
                         arg |-> createUserCommand[1]]}
                 /\ UNCHANGED <<pc, failedStep>>
            ELSE /\ inFlight' = inFlight \ {op}
                 /\ Throw("when")
       ELSE /\ inFlight' = inFlight \ {op}
            /\ pc' = "then"
            /\ UNCHANGED failedStep
    /\ UNCHANGED <<marketingServiceSpy, addEmailToListResponse, getUserResponse>>

\* the addEmailToList response arrives and the when step ends
AddEmailToListResumes(op) ==
    /\ op.kind = "addEmailToList"
    /\ pc = "whenAwait"
    /\ addEmailToListResponse' = Some(AddEmailToListResponse(op.arg.email))
    /\ marketingServiceSpy' = Called(marketingServiceSpy, "addEmailToList")
    /\ assignedIn' = [assignedIn EXCEPT !.addEmailToListResponse = ran]
    /\ inFlight' = inFlight \ {op}
    /\ pc' = "then"
    /\ UNCHANGED <<failedStep, createUserResponse, users, emailServiceSpy,
                   getUserResponse>>

\* the getUserByEmail response arrives and the then step runs its remaining
\* assertions
GetUserByEmailResumes(op) ==
    /\ op.kind = "getUserByEmail"
    /\ pc = "thenAwait"
    /\ getUserResponse' = Some(GetUserByEmailResponse(users, op.arg.email))
    /\ inFlight' = inFlight \ {op}
    /\ IF StateVerification(scenario, GetUserByEmailResponse(users, op.arg.email),
                            createUserCommand[1], emailServiceSpy)
       THEN pc' = "and" /\ UNCHANGED failedStep
       ELSE Throw("then")
    /\ UNCHANGED <<createUserResponse, addEmailToListResponse, users,
                   emailServiceSpy, marketingServiceSpy, assignedIn>>

\* an awaited operation completes and its step resumes
AwaitResumes ==
    /\ \E op \in inFlight :
         /\ op.awaited
         /\ CASE op.kind = "register" -> RegisterResumes(op)
              [] op.kind = "addEmailToList" -> AddEmailToListResumes(op)
              [] OTHER -> GetUserByEmailResumes(op)
    /\ UNCHANGED <<suite, scenario, ran, apiClient, serverState, dbState,
                   createUserCommand, drawnEmails, drawnUsernames, reads>>

\* the read of a suite-level response variable by an assertion step
Read(name) == [name |-> name, assignedIn |-> assignedIn[name], readIn |-> ran]

\* then of the driver suite
ThenDriver ==
    /\ pc = "then"
    /\ scenario = "SuccessfulRegistration"
    /\ reads' = reads \cup {Read("createUserResponse")}
    /\ IF DriverThenAssertions(createUserResponse[1], createUserCommand[1])
       THEN pc' = "and" /\ UNCHANGED failedStep
       ELSE Throw("then")
    /\ UNCHANGED <<suite, scenario, ran, apiClient, serverState, dbState, users,
                   emailServiceSpy, marketingServiceSpy, createUserCommand,
                   createUserResponse, addEmailToListResponse, getUserResponse,
                   inFlight, drawnEmails, drawnUsernames, assignedIn>>

\* then of the client suite up to `await apiClient.users.getUserByEmail(...)`
ThenClient ==
    /\ pc = "then"
    /\ scenario \in RegisteringScenarios \ {"SuccessfulRegistration"}
    /\ reads' = reads \cup {Read("createUserResponse")}
    /\ IF /\ createUserResponse # None
          /\ ResultVerification(scenario, createUserResponse[1], createUserCommand[1])
       THEN /\ inFlight' = inFlight \cup
                  {[kind |-> "getUserByEmail", awaited |-> TRUE,
                    arg |-> createUserCommand[1]]}
            /\ pc' = "thenAwait"
            /\ UNCHANGED failedStep
       ELSE /\ Throw("then")
            /\ UNCHANGED inFlight
    /\ UNCHANGED <<suite, scenario, ran, apiClient, serverState, dbState, users,
                   emailServiceSpy, marketingServiceSpy, createUserCommand,
                   createUserResponse, addEmailToListResponse, getUserResponse,
                   drawnEmails, drawnUsernames, assignedIn>>

\* the response variables the and step of a scenario destructures
AndReads(scn) ==
    IF scn \in {"MarketingAccepted", "MarketingDeclined"}
    THEN {"addEmailToListResponse"}
    ELSE {}

\* and of the client suite's registering scenarios
AndClient ==
    /\ pc = "and"
    /\ scenario \in RegisteringScenarios \ {"SuccessfulRegistration"}
    /\ reads' = reads \cup {Read(name) : name \in AndReads(scenario)}
    /\ IF AndAssertions(scenario, addEmailToListResponse, marketingServiceSpy)
       THEN pc' = AfterSteps /\ UNCHANGED failedStep
       ELSE Throw("and")
    /\ UNCHANGED <<suite, scenario, ran, apiClient, serverState, dbState, users,
                   emailServiceSpy, marketingServiceSpy, createUserCommand,
                   createUserResponse, addEmailToListResponse, getUserResponse,
                   inFlight, drawnEmails, drawnUsernames, assignedIn>>

\* the dropped seeding promise settles, at any later time
SetupWithExistingUserCompletes ==
    /\ \E op \in inFlight :
         /\ ~op.awaited
         /\ users' = SeededUsers(users, op.arg)
         /\ inFlight' = inFlight \ {op}
    /\ UNCHANGED <<suite, pc, scenario, ran, failedStep, apiClient, serverState,
                   dbState, emailServiceSpy, marketingServiceSpy, createUserCommand,
                   createUserResponse, addEmailToListResponse, getUserResponse,
                   drawnEmails, drawnUsernames, assignedIn, reads>>

Next ==
    \/ BeforeAll
    \/ BeforeAllConnect
    \/ StartScenario
    \/ GivenNewUser
    \/ GivenExistingAccount
    \/ EmptyStep
    \/ WhenRegister
    \/ AwaitResumes
    \/ ThenDriver
    \/ ThenClient
    \/ AndClient
    \/ AfterEach
    \/ AfterAll
    \/ SetupWithExistingUserCompletes

Spec == Init /\ [][Next]_vars

-----------------------------------------------------------------------------
(* Properties                                                              *)

\* the register call of the running scenario has returned
Registered == ran >= 1 /\ assignedIn.createUserResponse = ran

\* the when step of the running scenario is over
AfterWhen == pc \in {"then", "thenAwait", "and", "afterEach"}

SuccessfulRegistrationScenarios ==
    {"SuccessfulRegistration", "MarketingAccepted", "MarketingDeclined"}

\* C1: every valid registration command is answered by a success envelope that
\* echoes the command field by field, and the then step of every 'Successful
\* registration' test passes its result assertions on such an envelope.
C1_EchoAsserted ==
    /\ (Registered /\ IsValidCommand(createUserCommand[1]))
          => EchoesCommand(createUserResponse[1], createUserCommand[1])
    /\ ( /\ scenario \in SuccessfulRegistrationScenarios
         /\ Registered
         /\ \E r \in reads : r.name = "createUserResponse"
         /\ EchoesCommand(createUserResponse[1], createUserCommand[1]) )
          => failedStep # "then"

\* C2: a registration command with a missing required field is answered by
\* success=false with a defined error, stores no user, and the lookup of the
\* submitted email that follows answers error 'UserNotFound'.
C2_InvalidRejected ==
    (Registered /\ ~IsValidCommand(createUserCommand[1])) =>
        /\ ~createUserResponse[1].success
        /\ createUserResponse[1].error # None
        /\ \A u \in users : u.email # createUserCommand[1].email
        /\ getUserResponse # None =>
              getUserResponse[1].error = Some("UserNotFound")

C2_Witness ==
    /\ scenario = "InvalidDetails"
    /\ Registered
    /\ ~IsValidCommand(createUserCommand[1])
    /\ getUserResponse # None
    /\ getUserResponse[1].error = Some("UserNotFound")

\* C3: in every scenario of the client suite, from the return of the register
\* call to the teardown, the email spy has counted exactly one sendMail if the
\* registration succeeded and none if it failed, whatever ran before.
C3_SendMailCount ==
    (suite = "client" /\ Registered /\ (pc = "whenAwait" \/ AfterWhen)) =>
        getTimesMethodCalled(emailServiceSpy, "sendMail") =
            (IF createUserResponse[1].success THEN 1 ELSE 0)

C3_Witness ==
    /\ suite = "client"
    /\ ran >= 2
    /\ Cardinality(users) >= 2
    /\ Registered
    /\ pc = "and"
    /\ createUserResponse[1].success
    /\ getTimesMethodCalled(emailServiceSpy, "sendMail") = 1

\* C4: once the when step of a client-suite scenario is over, the marketing spy
\* has counted exactly one addEmailToList if the scenario accepts marketing
\* emails and none otherwise.
C4_MarketingCount ==
    (suite = "client" /\ Registered /\ AfterWhen) =>
        getTimesMethodCalled(marketingServiceSpy, "addEmailToList") =
            (IF scenario = "MarketingAccepted" THEN 1 ELSE 0)

\* C5: the client built by createAPIClient has a users, a posts and a marketing
\* sub-client.
C5_SubClients ==
    \A name \in {"users", "posts", "marketing"} : HasSubClient(apiClient, name)

WellFormedEnvelope(env) ==
    /\ env.success => (env.data # None /\ env.error = None)
    /\ ~env.success => (env.error # None /\ env.data = None)

ClientOrder ==
    {<<"beforeAll", "beforeAllConnect">>, <<"beforeAllConnect", "idle">>,
     <<"idle", "given">>, <<"given", "when">>,
     <<"when", "whenAwait">>, <<"when", "then">>,
     <<"whenAwait", "then">>, <<"whenAwait", "afterEach">>,
     <<"then", "thenAwait">>, <<"then", "and">>, <<"then", "afterEach">>,
     <<"thenAwait", "and">>, <<"thenAwait", "afterEach">>,
     <<"and", "afterEach">>, <<"afterEach", "idle">>, <<"idle", "done">>}

\* C7: every scenario of the client suite runs given, when, then, and in that
\* order and ends in the afterEach hook, also when a step threw, and both
\* spies count zero calls when a scenario starts.
C7_Teardown ==
    /\ [](suite = "client" /\ pc = "given" =>
             \A m \in SpyMethods :
                /\ getTimesMethodCalled(emailServiceSpy, m) = 0
                /\ getTimesMethodCalled(marketingServiceSpy, m) = 0)
    /\ [][suite = "client" /\ pc' # pc => <<pc, pc'>> \in ClientOrder]_vars

C7_Witness ==
    /\ suite = "client"
    /\ pc = "idle"
    /\ failedStep # "none"
    /\ Registered
    /\ createUserResponse[1].success
    /\ getTimesMethodCalled(emailServiceSpy, "sendMail") = 0

\* C8: when a step or hook begins, no asynchronous operation started by an
\* earlier step is still in flight, and never are two operations in flight.
C8_StepsAwaited ==
    /\ pc \in {"given", "when", "then", "and", "afterEach", "idle", "done"}
          => inFlight = {}
    /\ Cardinality(inFlight) <= 1

\* C9: requests of the client suite are in flight only while the server is
\* started and the database connected, and when the suite is done the server
\* is stopped and the database connection is closed.
C9_Lifecycle ==
    suite = "client" =>
        /\ (\E op \in inFlight : op.awaited) =>
              (serverState = "started" /\ dbState = "connected")
        /\ pc = "done" => (serverState = "stopped" /\ dbState = "disconnected")

\* C10: every response variable an assertion step reads was assigned by the
\* when step of the same scenario.
C10_OwnResponses ==
    \A r \in reads : r.assignedIn = r.readIn

====
